---- MODULE Spec2Model ----
(***************************************************************************)
(* ICMP echo probe of explain_icmp_ping: the C program (src/c/ping.c,      *)
(* icmp_ping) and the C++ program (src/cpp/ping.cpp, icmp_ns::ping).       *)
(* One probe attempt is a sequence of system calls; every system call is   *)
(* one action whose result (success, failure, bytes, elapsed time) is      *)
(* chosen by the environment.  Time is the monotonic clock in ticks of one *)
(* millisecond.                                                            *)
(***************************************************************************)
EXTENDS Integers, Sequences, FiniteSets, TLC

(* ---- bounds of the model ---------------------------------------------- *)
\* timeouts passed to the probe range over 0..MaxTimeout
MaxTimeout == 3
\* a name lookup or a send takes 0..MaxDelay ticks
MaxDelay == 1
\* a receive whose timer expired returns 1..MaxSched ticks after the expiry
MaxSched == 1
\* a receive without a timer gets its datagram after 0..MaxWait ticks
MaxWait == 2
\* at most MaxRecv receive calls are followed in one probe
MaxRecv == 3

(* ---- constants of the programs ---------------------------------------- *)
ICMP_ECHO == 8
ICMP_ECHOREPLY == 0
sizeof_icmphdr == 8
sizeof_ping_pkt == 64
ICMP_PAYLOAD_LENGTH == sizeof_ping_pkt - sizeof_icmphdr
ip_header_length == 20
raw_icmp_response_length == ip_header_length + sizeof_ping_pkt

\* mutant: the value is kept in an int (pid_t) and not cut to 16 bits
U16_kept_as_int(n) == n

\* conversion to uint16_t / unsigned short
U16(n) == n % 65536

(* ---- struct ping_pkt --------------------------------------------------- *)
\* the packet after zero_inititialize / value initialisation
zero_pkt == [type |-> 0, code |-> 0, checksum |-> 0, id |-> 0, sequence |-> 0,
             payload |-> [i \in 0..(ICMP_PAYLOAD_LENGTH - 1) |-> 0]]

\* the bytes of a ping_pkt as they lie in memory (x86: 16-bit fields low byte first)
pkt_bytes(p) ==
    [i \in 0..(sizeof_ping_pkt - 1) |->
        CASE i = 0 -> p.type
          [] i = 1 -> p.code
          [] i = 2 -> p.checksum % 256
          [] i = 3 -> p.checksum \div 256
          [] i = 4 -> p.id % 256
          [] i = 5 -> p.id \div 256
          [] i = 6 -> p.sequence % 256
          [] i = 7 -> p.sequence \div 256
          [] OTHER -> p.payload[i - sizeof_icmphdr]]

\* for (; size > 1; size -= 2) sum += *view++;  if (size == 1) sum += last byte
\* (unsigned int sum: 32 words of at most 65535 stay below 2^21, so the 32-bit
\* accumulator never wraps)
RECURSIVE sum_words(_, _, _, _)
sum_words(b, at, size, sum) ==
    IF size > 1
    THEN sum_words(b, at + 2, size - 2, sum + b[at] + 256 * b[at + 1])
    ELSE IF size = 1 THEN sum + b[at] ELSE sum

\* mutant: the carry of the first fold is not added back
calculate_checksum_one_fold(p) ==
    LET s0 == sum_words(pkt_bytes(p), 0, sizeof_ping_pkt, 0)
        s1 == (s0 \div 65536) + (s0 % 65536)
    IN  65535 - (s1 % 65536)

\* sum = (sum >> 16) + (sum & 0xFFFF); sum += (sum >> 16); return ~sum;
calculate_checksum(p) ==
    LET s0 == sum_words(pkt_bytes(p), 0, sizeof_ping_pkt, 0)
        s1 == (s0 \div 65536) + (s0 % 65536)
        s2 == s1 + (s1 \div 65536)
    IN  65535 - U16(s2)

\* payload[i] = (char)('0' + i)
payload_pattern == [i \in 0..(ICMP_PAYLOAD_LENGTH - 1) |-> (48 + i) % 256]

\* mutant: the checksum is computed before the payload is filled
initialize_icmp_packet_checksum_first(p) ==
    LET header == [zero_pkt EXCEPT !.type = ICMP_ECHO, !.id = U16(p), !.sequence = 0]
    IN  [header EXCEPT !.checksum = calculate_checksum(header),
                       !.payload = payload_pattern]

\* initialize_icmp_packet / make_icmp_packet for the process id pid
initialize_icmp_packet(p) ==
    LET filled == [zero_pkt EXCEPT !.type = ICMP_ECHO, !.id = U16(p),
                                   !.sequence = 0, !.payload = payload_pattern]
    IN  [filled EXCEPT !.checksum = calculate_checksum(filled)]

\* memcmp over n bytes: 0 when equal, else the sign of the first difference
RECURSIVE memcmp(_, _, _, _)
memcmp(a, b, at, n) ==
    IF at >= n THEN 0
    ELSE IF a[at] # b[at] THEN (IF a[at] < b[at] THEN -1 ELSE 1)
    ELSE memcmp(a, b, at + 1, n)

\* mutant: the payload comparison stops one byte early
verify_reply_short_memcmp(sent, received, expected_id) ==
    IF received.type # ICMP_ECHOREPLY THEN FALSE
    ELSE IF received.code # 0 THEN FALSE
    ELSE IF received.id # expected_id THEN FALSE
    ELSE IF memcmp(sent.payload, received.payload, 0, ICMP_PAYLOAD_LENGTH - 1) # 0 THEN FALSE
    ELSE TRUE

verify_reply(sent, received, expected_id) ==
    IF received.type # ICMP_ECHOREPLY THEN FALSE
    ELSE IF received.code # 0 THEN FALSE
    ELSE IF received.id # expected_id THEN FALSE
    ELSE IF memcmp(sent.payload, received.payload, 0, ICMP_PAYLOAD_LENGTH) # 0 THEN FALSE
    ELSE TRUE

(* ---- the state --------------------------------------------------------- *)
VARIABLES
    impl,             \* which program runs the probe: "c" (icmp_ping) or "cpp" (icmp_ns::ping)
    pc,               \* the next statement of the probe
    pid,              \* getpid()
    timeout_ms,       \* the timeout argument
    now,              \* CLOCK_MONOTONIC / steady_clock
    deadline,         \* C++ only: the local variable deadline
    start_timestamp,  \* start_timestamp / start_timepoint
    rcvtimeo,         \* SO_RCVTIMEO of the socket, a struct timeval
    socket_fd,        \* "none", "open" or "closed"
    constructed,      \* C++ only: the icmp_socket object is fully constructed
    closes,           \* number of close() calls on the socket
    sent,             \* number of sendto() calls
    send_result,      \* value returned by sendto()
    recvs,            \* number of recvfrom() calls
    delivered,        \* number of datagrams handed to the probe by recvfrom()
    last,             \* what the last recvfrom() left in the buffer
    verified,         \* value of the last verify_reply() call
    packet,           \* the ping_pkt that is sent
    my_icmp_id,       \* const uint16_t my_icmp_id
    done,             \* C only: the loop flag done
    duration,         \* *duration_ms / duration
    reports,          \* number of "warning unrelated message" lines printed
    result,           \* "none", "Success", "Timeout" or "Failure"
    failed,           \* the call whose failure ended the probe, or "none"
    main_pc,          \* the next statement of main, "none" when the probe runs on its own
    attempt,          \* main: number of probe calls begun by the loop (i + 1)
    status_code,      \* main (C): int status_code
    lines,            \* main: number of result lines printed by the loop
    timed_out,        \* main: some probe call has ended in Timeout
    exit_status,      \* main: the status main returned, -1 as long as it has not returned
    requests,         \* main: the set of packets sent by the earlier probe calls
    phase,            \* side by side: 1 the C probe runs, 2 the C++ probe, 0 neither
    script,           \* side by side: the environment events both probes are given
    outcome_c         \* side by side: how the C probe ended

\* what lies outside one call of the probe
outer == <<main_pc, attempt, status_code, lines, timed_out, exit_status, requests,
           phase, script, outcome_c>>

vars == <<impl, pc, pid, timeout_ms, now, deadline, start_timestamp, rcvtimeo,
          socket_fd, constructed, closes, sent, send_result, recvs, delivered,
          last, verified, packet, my_icmp_id, done, duration, reports, result, failed,
          outer>>

(* ---- the environment --------------------------------------------------- *)
\* process ids, below and above 2^16
Pids == {1234, 70000}

Timeouts == 0..MaxTimeout

\* values sendto() can return: an error, a short write, the whole packet
SendResults == {-1, sizeof_ping_pkt - 1, sizeof_ping_pkt}

\* the Echo Reply a host answers to the request p
echo_reply(p) ==
    LET r == [p EXCEPT !.type = ICMP_ECHOREPLY, !.checksum = 0]
    IN  [r EXCEPT !.checksum = calculate_checksum(r)]

\* number of bytes by which a datagram on the wire exceeds the expected reply
ExtraBytes == 8

\* lengths of datagrams on the wire: header only, the expected size, too long
WireLens == {ip_header_length + sizeof_icmphdr, raw_icmp_response_length,
             raw_icmp_response_length + ExtraBytes}

\* ICMP messages a raw socket can see while the probe of the request p waits
IcmpMessages(p) ==
    LET r == echo_reply(p)
    IN  { r,
          [r EXCEPT !.id = U16(p.id + 1)],
          [r EXCEPT !.payload[ICMP_PAYLOAD_LENGTH - 1] = (@ + 1) % 256],
          p }

\* datagrams on the wire: wirelen bytes in all, pkt the 64 bytes that follow the IP header
Datagrams(p) == [wirelen : WireLens, pkt : IcmpMessages(p)]

Min(a, b) == IF a < b THEN a ELSE b

\* recvfrom(fd, buffer, size): at most size bytes of the datagram are returned
recvfrom(dg, size) ==
    [wirelen |-> dg.wirelen, len |-> Min(dg.wirelen, size), pkt |-> dg.pkt]

\* recvfrom() returned -1: the timer of the socket expired
no_data == [wirelen |-> 0, len |-> -1, pkt |-> zero_pkt]

\* set_receive_timeout: milliseconds to struct timeval
timeval(ms) ==
    LET seconds == ms \div 1000
        useconds == (ms - (seconds * 1000)) * 1000
    IN  [tv_sec |-> seconds, tv_usec |-> useconds]

\* the time in ticks after which a blocked recvfrom() gives up; 0: never
timer(tv) == tv.tv_sec * 1000 + (tv.tv_usec \div 1000)

\* ticks a blocked recvfrom() can wait before a datagram arrives: up to MaxWait, and
\* the very tick at which the timer of the socket would expire
recv_waits(tv) ==
    IF timer(tv) = 0 THEN 0..MaxWait ELSE (0..Min(MaxWait, timer(tv))) \cup {timer(tv)}

(* ---- initial states ----------------------------------------------------- *)
InitCommon ==
    /\ pid \in Pids
    /\ now = 0
    /\ deadline = 0
    /\ start_timestamp = 0
    /\ rcvtimeo = [tv_sec |-> 0, tv_usec |-> 0]
    /\ socket_fd = "none"
    /\ constructed = FALSE
    /\ closes = 0
    /\ sent = 0
    /\ send_result = 0
    /\ recvs = 0
    /\ delivered = 0
    /\ verified = FALSE
    /\ done = FALSE
    /\ duration = 0
    /\ reports = 0
    /\ result = "none"
    /\ failed = "none"

\* the probe is called on its own: no main around it, no second probe beside it
no_script == [fail |-> "none", dns_d |-> 0, send_r |-> 0, send_d |-> 0, sched |-> 0,
              arrivals |-> <<>>]

no_outcome == [class |-> "none", sent |-> 0, recvs |-> 0, closes |-> 0]

InitAlone ==
    /\ main_pc = "none"
    /\ attempt = 0
    /\ status_code = 0
    /\ lines = 0
    /\ timed_out = FALSE
    /\ exit_status = -1
    /\ requests = {}
    /\ phase = 0
    /\ script = no_script
    /\ outcome_c = no_outcome

Init ==
    /\ InitCommon
    /\ InitAlone
    /\ impl \in {"c", "cpp"}
    /\ pc = IF impl = "c" THEN "c_dns" ELSE "x_begin"
    /\ timeout_ms \in Timeouts
    /\ last = no_data
    /\ packet = zero_pkt
    /\ my_icmp_id = 0

(* ---- icmp_ping (src/c/ping.c) ------------------------------------------- *)
\* dns_lookup_and_store_address(address, &sock_addr); NULL: return -1
c_dns_lookup ==
    /\ impl = "c" /\ pc = "c_dns"
    /\ \E ok \in BOOLEAN, d \in 0..MaxDelay :
         /\ now' = now + d
         /\ IF ok
            THEN pc' = "c_socket" /\ UNCHANGED <<result, failed>>
            ELSE pc' = "done" /\ result' = "Failure" /\ failed' = "dns"
    /\ UNCHANGED <<outer, impl, pid, timeout_ms, deadline, start_timestamp, rcvtimeo,
                   socket_fd, constructed, closes, sent, send_result, recvs,
                   delivered, last, verified, packet, my_icmp_id, done, duration, reports>>

\* socket(AF_INET, SOCK_RAW, IPPROTO_ICMP); < 0: return -1
c_socket ==
    /\ impl = "c" /\ pc = "c_socket"
    /\ \E ok \in BOOLEAN :
         IF ok
         THEN socket_fd' = "open" /\ pc' = "c_ttl" /\ UNCHANGED <<result, failed>>
         ELSE pc' = "done" /\ result' = "Failure" /\ failed' = "socket"
              /\ UNCHANGED socket_fd
    /\ UNCHANGED <<outer, impl, pid, timeout_ms, now, deadline, start_timestamp, rcvtimeo,
                   constructed, closes, sent, send_result, recvs,
                   delivered, last, verified, packet, my_icmp_id, done, duration, reports>>

\* printf("... '%s' could not be set.\n") is called without the argument its format
\* names, which is undefined: the call prints whatever it finds and returns, and then
\* close(socket_fd); return -1 follow, or it ends the process on the spot
c_printf_then_close(why) ==
    /\ result' = "Failure"
    /\ failed' = why
    /\ \E returns \in BOOLEAN :
         IF returns
         THEN pc' = "done" /\ socket_fd' = "closed" /\ closes' = closes + 1
         ELSE pc' = "aborted" /\ UNCHANGED <<socket_fd, closes>>

\* mutant: the value returned by set_ttl is not acted upon
c_set_ttl_unchecked ==
    /\ impl = "c" /\ pc = "c_ttl"
    /\ \E ok \in BOOLEAN :
         /\ failed' = IF ok THEN failed ELSE "ttl"
         /\ pc' = "c_rcvtimeo" /\ UNCHANGED <<socket_fd, closes, result>>
    /\ UNCHANGED <<outer, impl, pid, timeout_ms, now, deadline, start_timestamp, rcvtimeo,
                   constructed, sent, send_result, recvs,
                   delivered, last, verified, packet, my_icmp_id, done, duration, reports>>

\* set_ttl(socket_fd, 64); != 0: close, return -1
c_set_ttl ==
    /\ impl = "c" /\ pc = "c_ttl"
    /\ \E ok \in BOOLEAN :
         IF ok
         THEN pc' = "c_rcvtimeo" /\ UNCHANGED <<socket_fd, closes, result, failed>>
         ELSE c_printf_then_close("ttl")
    /\ UNCHANGED <<outer, impl, pid, timeout_ms, now, deadline, start_timestamp, rcvtimeo,
                   constructed, sent, send_result, recvs,
                   delivered, last, verified, packet, my_icmp_id, done, duration, reports>>

\* set_receive_timeout(socket_fd, timeout_ms); != 0: close, return -1
c_set_receive_timeout ==
    /\ impl = "c" /\ pc = "c_rcvtimeo"
    /\ \E ok \in BOOLEAN :
         IF ok
         THEN /\ rcvtimeo' = timeval(timeout_ms)
              /\ pc' = "c_send" /\ UNCHANGED <<socket_fd, closes, result, failed>>
         ELSE c_printf_then_close("rcvtimeo") /\ UNCHANGED rcvtimeo
    /\ UNCHANGED <<outer, impl, pid, timeout_ms, now, deadline, start_timestamp,
                   constructed, sent, send_result, recvs,
                   delivered, last, verified, packet, my_icmp_id, done, duration, reports>>

\* my_icmp_id = getpid(); initialize_icmp_packet; clock_gettime(start); icmp_send
\* (the value returned by icmp_send is not looked at); done = false
c_send ==
    /\ impl = "c" /\ pc = "c_send"
    /\ my_icmp_id' = U16(pid)
    /\ packet' = initialize_icmp_packet(pid)
    /\ start_timestamp' = now
    /\ \E r \in SendResults, d \in 0..MaxDelay :
         /\ send_result' = r
         /\ now' = now + d
    /\ sent' = sent + 1
    /\ done' = FALSE
    /\ pc' = "c_loop"
    /\ UNCHANGED <<outer, impl, pid, timeout_ms, deadline, rcvtimeo, socket_fd, constructed,
                   closes, recvs, delivered, last, verified, duration, reports,
                   result, failed>>

\* mutant: any datagram that carries data passes the length test
is_reply_length_any_data(n) == n > 0

\* data_received == raw_icmp_response_length / data_received.size() == raw_icmp_response_length
is_reply_length(n) == n = raw_icmp_response_length

\* one pass of the loop body: icmp_receive returned n after d ticks and left buf
c_iteration(n, buf, d) ==
    /\ recvs' = recvs + 1
    /\ last' = buf
    /\ now' = now + d
    /\ duration' = (now + d) - start_timestamp
    /\ done' = (done \/ ((now + d) - start_timestamp > timeout_ms))
    /\ IF is_reply_length(n)
       THEN /\ verified' = verify_reply(packet, buf.pkt, my_icmp_id)
            /\ IF verify_reply(packet, buf.pkt, my_icmp_id)
               THEN /\ socket_fd' = "closed" /\ closes' = closes + 1
                    /\ result' = "Success" /\ pc' = "done"
                    /\ UNCHANGED reports
               ELSE /\ reports' = reports + 1
                    /\ UNCHANGED <<socket_fd, closes, result, pc>>
       ELSE /\ reports' = IF n > 0 THEN reports + 1 ELSE reports
            /\ UNCHANGED <<verified, socket_fd, closes, result, pc>>
    /\ UNCHANGED <<outer, impl, pid, timeout_ms, deadline, start_timestamp, rcvtimeo,
                   constructed, sent, send_result, packet, my_icmp_id, failed>>

\* while (!done): icmp_receive returns a datagram
c_receive_data ==
    /\ impl = "c" /\ pc = "c_loop" /\ ~done /\ recvs < MaxRecv
    /\ \E dg \in Datagrams(packet), d \in recv_waits(rcvtimeo) :
         c_iteration(recvfrom(dg, raw_icmp_response_length).len,
                     recvfrom(dg, raw_icmp_response_length), d)
    /\ delivered' = delivered + 1

\* while (!done): icmp_receive returns -1 because the timer of the socket expired
c_receive_timeout ==
    /\ impl = "c" /\ pc = "c_loop" /\ ~done /\ recvs < MaxRecv
    /\ timer(rcvtimeo) > 0
    /\ \E s \in 1..MaxSched : c_iteration(-1, no_data, timer(rcvtimeo) + s)
    /\ UNCHANGED delivered

\* the loop ends with done set: close(socket_fd); return -2
c_return_timeout ==
    /\ impl = "c" /\ pc = "c_loop" /\ done
    /\ socket_fd' = "closed" /\ closes' = closes + 1
    /\ result' = "Timeout" /\ pc' = "done"
    /\ UNCHANGED <<outer, impl, pid, timeout_ms, now, deadline, start_timestamp, rcvtimeo,
                   constructed, sent, send_result, recvs, delivered, last, verified,
                   packet, my_icmp_id, done, duration, reports, failed>>

c_Next ==
    \/ c_dns_lookup
    \/ c_socket
    \/ c_set_ttl
    \/ c_set_receive_timeout
    \/ c_send
    \/ c_receive_data
    \/ c_receive_timeout
    \/ c_return_timeout

(* ---- icmp_ns::ping (src/cpp/ping.cpp) ----------------------------------- *)
\* mutant: the destructor also runs for an icmp_socket whose constructor threw
x_throw_closes_unconstructed(why) ==
    /\ result' = "Failure"
    /\ failed' = why
    /\ \E unwind \in BOOLEAN :
         IF unwind
         THEN pc' = "done" /\ socket_fd' = "closed" /\ closes' = closes + 1
         ELSE pc' = "aborted" /\ UNCHANGED <<socket_fd, closes>>

\* a std::runtime_error leaves ping(): when the stack is unwound the destructor
\* of a constructed icmp_socket closes the socket; main has no handler, and then
\* the implementation may call std::terminate without unwinding at all
x_throw(why) ==
    /\ result' = "Failure"
    /\ failed' = why
    /\ \E unwind \in BOOLEAN :
         IF unwind
         THEN /\ pc' = "done"
              /\ IF constructed
                 THEN socket_fd' = "closed" /\ closes' = closes + 1
                 ELSE UNCHANGED <<socket_fd, closes>>
         ELSE /\ pc' = "aborted"
              /\ UNCHANGED <<socket_fd, closes>>

\* auto deadline = std::chrono::steady_clock::now() + timeout;
x_deadline ==
    /\ impl = "cpp" /\ pc = "x_begin"
    /\ deadline' = now + timeout_ms
    /\ pc' = "x_dns"
    /\ UNCHANGED <<outer, impl, pid, timeout_ms, now, start_timestamp, rcvtimeo, socket_fd,
                   constructed, closes, sent, send_result, recvs, delivered, last,
                   verified, packet, my_icmp_id, done, duration, reports, result, failed>>

\* icmp_socket constructor, first half: dns_lookup_and_store_address()
x_dns_lookup ==
    /\ impl = "cpp" /\ pc = "x_dns"
    /\ \E ok \in BOOLEAN, d \in 0..MaxDelay :
         /\ now' = now + d
         /\ IF ok
            THEN pc' = "x_socket" /\ UNCHANGED <<result, failed, socket_fd, closes>>
            ELSE x_throw("dns")
    /\ UNCHANGED <<outer, impl, pid, timeout_ms, deadline, start_timestamp, rcvtimeo,
                   constructed, sent, send_result, recvs, delivered, last,
                   verified, packet, my_icmp_id, done, duration, reports>>

\* icmp_socket constructor, second half: m_socket_fd = ::socket(...); < 0: throw
x_socket ==
    /\ impl = "cpp" /\ pc = "x_socket"
    /\ \E ok \in BOOLEAN :
         IF ok
         THEN /\ socket_fd' = "open" /\ constructed' = TRUE /\ pc' = "x_ttl"
              /\ UNCHANGED <<result, failed, closes>>
         ELSE x_throw("socket") /\ UNCHANGED constructed
    /\ UNCHANGED <<outer, impl, pid, timeout_ms, now, deadline, start_timestamp, rcvtimeo,
                   sent, send_result, recvs, delivered, last,
                   verified, packet, my_icmp_id, done, duration, reports>>

\* socket.set_TTL(64)
x_set_TTL ==
    /\ impl = "cpp" /\ pc = "x_ttl"
    /\ \E ok \in BOOLEAN :
         IF ok
         THEN pc' = "x_rcvtimeo" /\ UNCHANGED <<socket_fd, closes, result, failed>>
         ELSE x_throw("ttl")
    /\ UNCHANGED <<outer, impl, pid, timeout_ms, now, deadline, start_timestamp, rcvtimeo,
                   constructed, sent, send_result, recvs, delivered, last,
                   verified, packet, my_icmp_id, done, duration, reports>>

\* socket.set_receive_timeout(timeout)
x_set_receive_timeout ==
    /\ impl = "cpp" /\ pc = "x_rcvtimeo"
    /\ \E ok \in BOOLEAN :
         IF ok
         THEN /\ rcvtimeo' = timeval(timeout_ms)
              /\ pc' = "x_send" /\ UNCHANGED <<socket_fd, closes, result, failed>>
         ELSE x_throw("rcvtimeo") /\ UNCHANGED rcvtimeo
    /\ UNCHANGED <<outer, impl, pid, timeout_ms, now, deadline, start_timestamp,
                   constructed, sent, send_result, recvs, delivered, last,
                   verified, packet, my_icmp_id, done, duration, reports>>

\* my_icmp_id = getpid(); make_icmp_packet(); start_timepoint = now();
\* socket.send_object(packet): sendto() <= 0 throws
x_send ==
    /\ impl = "cpp" /\ pc = "x_send"
    /\ my_icmp_id' = U16(pid)
    /\ packet' = initialize_icmp_packet(pid)
    /\ start_timestamp' = now
    /\ sent' = sent + 1
    /\ \E r \in SendResults, d \in 0..MaxDelay :
         /\ send_result' = r
         /\ now' = now + d
         /\ IF r <= 0
            THEN x_throw("send")
            ELSE pc' = "x_loop" /\ UNCHANGED <<socket_fd, closes, result, failed>>
    /\ UNCHANGED <<outer, impl, pid, timeout_ms, deadline, rcvtimeo, constructed, recvs,
                   delivered, last, verified, done, duration, reports>>

\* one pass of the loop body: recvfrom returned n after d ticks and left buf;
\* icmp_socket::receive hands back an empty vector when n <= 0
x_iteration(n, buf, d) ==
    /\ recvs' = recvs + 1
    /\ last' = buf
    /\ now' = now + d
    /\ duration' = (now + d) - start_timestamp
    /\ LET size == IF n <= 0 THEN 0 ELSE n
       IN  IF is_reply_length(size)
           THEN /\ verified' = verify_reply(packet, buf.pkt, my_icmp_id)
                /\ IF verify_reply(packet, buf.pkt, my_icmp_id)
                   THEN /\ socket_fd' = "closed" /\ closes' = closes + 1
                        /\ result' = "Success" /\ pc' = "done"
                        /\ UNCHANGED reports
                   ELSE /\ reports' = reports + 1
                        /\ UNCHANGED <<socket_fd, closes, result, pc>>
           ELSE /\ reports' = reports + 1
                /\ UNCHANGED <<verified, socket_fd, closes, result, pc>>
    /\ UNCHANGED <<outer, impl, pid, timeout_ms, deadline, start_timestamp, rcvtimeo,
                   constructed, sent, send_result, packet, my_icmp_id, done, failed>>

\* while (now() < deadline): socket.receive returns a datagram
x_receive_data ==
    /\ impl = "cpp" /\ pc = "x_loop" /\ now < deadline /\ recvs < MaxRecv
    /\ \E dg \in Datagrams(packet), d \in recv_waits(rcvtimeo) :
         x_iteration(recvfrom(dg, raw_icmp_response_length).len,
                     recvfrom(dg, raw_icmp_response_length), d)
    /\ delivered' = delivered + 1

\* while (now() < deadline): recvfrom returns -1 because the timer of the socket expired
x_receive_timeout ==
    /\ impl = "cpp" /\ pc = "x_loop" /\ now < deadline /\ recvs < MaxRecv
    /\ timer(rcvtimeo) > 0
    /\ \E s \in 1..MaxSched : x_iteration(-1, no_data, timer(rcvtimeo) + s)
    /\ UNCHANGED delivered

\* the loop condition is false: return {}; the destructor closes the socket
x_return_timeout ==
    /\ impl = "cpp" /\ pc = "x_loop" /\ ~(now < deadline)
    /\ socket_fd' = "closed" /\ closes' = closes + 1
    /\ result' = "Timeout" /\ pc' = "done"
    /\ UNCHANGED <<outer, impl, pid, timeout_ms, now, deadline, start_timestamp, rcvtimeo,
                   constructed, sent, send_result, recvs, delivered, last, verified,
                   packet, my_icmp_id, done, duration, reports, failed>>

x_Next ==
    \/ x_deadline
    \/ x_dns_lookup
    \/ x_socket
    \/ x_set_TTL
    \/ x_set_receive_timeout
    \/ x_send
    \/ x_receive_data
    \/ x_receive_timeout
    \/ x_return_timeout

(* ---- the probe ---------------------------------------------------------- *)
Next == c_Next \/ x_Next

Spec == Init /\ [][Next]_vars

\* the steps the probe takes by itself; the arrival of a datagram is the network's step
ProgramNext ==
    \/ c_dns_lookup \/ c_socket \/ c_set_ttl \/ c_set_receive_timeout \/ c_send
    \/ c_receive_timeout \/ c_return_timeout
    \/ x_deadline \/ x_dns_lookup \/ x_socket \/ x_set_TTL \/ x_set_receive_timeout
    \/ x_send \/ x_receive_timeout \/ x_return_timeout

\* the probe attempt is over: it returned, threw, or the process was terminated
Returned == pc \in {"done", "aborted"}

(* ---- main (src/c/ping.c, src/cpp/ping.cpp) ------------------------------- *)
\* const int timeout_ms = 2500; / const auto timeout = 2500ms;
main_timeout_ms == 2500

\* for (int i = 0; i < 4; ++i)
main_attempts == 4

InitMain ==
    /\ InitCommon
    /\ impl \in {"c", "cpp"}
    /\ pc = "idle"
    /\ timeout_ms = 0
    /\ last = no_data
    /\ packet = zero_pkt
    /\ my_icmp_id = 0
    /\ main_pc = "m_lookup"
    /\ attempt = 0
    /\ status_code = 0
    /\ lines = 0
    /\ timed_out = FALSE
    /\ exit_status = -1
    /\ requests = {}
    /\ phase = 0
    /\ script = no_script
    /\ outcome_c = no_outcome

\* the lookup, the reverse lookup and the PING line. C: a failed lookup leaves address
\* NULL, which is then handed to inet_addr() and to printf("%s"): undefined, the
\* process goes on or is ended. C++: dns_lookup returns an empty string and main goes on.
m_lookup ==
    /\ main_pc = "m_lookup"
    /\ \E ok \in BOOLEAN, survives \in BOOLEAN :
         main_pc' = IF ok \/ impl = "cpp" \/ survives THEN "m_loop" ELSE "m_abort"
    /\ UNCHANGED <<impl, pc, pid, timeout_ms, now, deadline, start_timestamp, rcvtimeo,
                   socket_fd, constructed, closes, sent, send_result, recvs, delivered,
                   last, verified, packet, my_icmp_id, done, duration, reports, result,
                   failed, attempt, status_code, lines, timed_out, exit_status, requests,
                   phase, script, outcome_c>>

\* i < 4: icmp_ping(host, timeout_ms, &duration) / icmp_ns::ping(address, timeout) is
\* entered; the clock is read relative to the moment of the call
m_call ==
    /\ main_pc = "m_loop" /\ attempt < main_attempts
    /\ attempt' = attempt + 1
    /\ main_pc' = "m_call"
    /\ pc' = IF impl = "c" THEN "c_dns" ELSE "x_begin"
    /\ timeout_ms' = main_timeout_ms
    /\ UNCHANGED <<impl, pid, now, deadline, start_timestamp, rcvtimeo,
                   socket_fd, constructed, closes, sent, send_result, recvs, delivered,
                   last, verified, packet, my_icmp_id, done, duration, reports, result,
                   failed, status_code, lines, timed_out, exit_status, requests,
                   phase, script, outcome_c>>

\* the locals of the probe go out of scope
probe_locals_gone ==
    /\ now' = 0
    /\ deadline' = 0
    /\ start_timestamp' = 0
    /\ rcvtimeo' = [tv_sec |-> 0, tv_usec |-> 0]
    /\ socket_fd' = "none"
    /\ constructed' = FALSE
    /\ closes' = 0
    /\ sent' = 0
    /\ send_result' = 0
    /\ recvs' = 0
    /\ delivered' = 0
    /\ last' = no_data
    /\ verified' = FALSE
    /\ packet' = zero_pkt
    /\ my_icmp_id' = 0
    /\ done' = FALSE
    /\ duration' = 0
    /\ reports' = 0
    /\ result' = "none"
    /\ failed' = "none"

\* the value main returns. C: return status_code; C++: main has no return statement
m_status == IF impl = "c" THEN status_code ELSE 0

\* the probe call is over and main goes on with its result.
\* C: -2 prints the timed-out line and sets status_code, > 0 prints the time, -1 prints
\* nothing; a probe that ended the process ends main with it.
\* C++: a value prints the time, an empty optional the timed-out line; an exception is
\* not caught anywhere, std::terminate ends the process.
m_return ==
    /\ main_pc = "m_call" /\ Returned
    /\ main_pc' = IF pc = "aborted" \/ (impl = "cpp" /\ result = "Failure")
                  THEN "m_abort" ELSE "m_loop"
    /\ lines' = IF pc = "done" /\ result \in {"Success", "Timeout"} THEN lines + 1 ELSE lines
    /\ timed_out' = (timed_out \/ (pc = "done" /\ result = "Timeout"))
    /\ status_code' = IF impl = "c" /\ pc = "done" /\ result = "Timeout" THEN -2
                      ELSE status_code
    /\ requests' = IF sent > 0 /\ send_result = sizeof_ping_pkt
                   THEN requests \cup {packet} ELSE requests
    /\ pc' = "idle"
    /\ probe_locals_gone
    /\ UNCHANGED <<impl, pid, timeout_ms, attempt, exit_status, phase, script, outcome_c>>

\* i == 4: main returns
m_exit ==
    /\ main_pc = "m_loop" /\ attempt = main_attempts
    /\ main_pc' = "m_exit"
    /\ exit_status' = m_status % 256
    /\ UNCHANGED <<impl, pc, pid, timeout_ms, now, deadline, start_timestamp, rcvtimeo,
                   socket_fd, constructed, closes, sent, send_result, recvs, delivered,
                   last, verified, packet, my_icmp_id, done, duration, reports, result,
                   failed, attempt, status_code, lines, timed_out, requests,
                   phase, script, outcome_c>>

\* the environment main is run in: a datagram that arrives is there when the receive
\* call is made and has the expected length, and no other call takes a tick
main_environment ==
    /\ now' = now \/ last' = no_data
    /\ last'.wirelen \in {no_data.wirelen, raw_icmp_response_length}

\* one step of the probe that main has called
m_probe ==
    /\ main_pc = "m_call"
    /\ c_Next \/ x_Next
    /\ main_environment

MainNext ==
    \/ m_lookup
    \/ m_call
    \/ m_probe
    \/ m_return
    \/ m_exit

SpecMain == InitMain /\ [][MainNext]_vars

(* ---- icmp_ping and icmp_ns::ping side by side ----------------------------- *)
\* number of datagrams that arrive while the probes wait
MaxArrivals == 1

\* the datagrams that arrive, each with the ticks the receive call waits for it
Arrivals(p, ms) ==
    UNION { [1..n -> [dg : Datagrams(initialize_icmp_packet(p)),
                      w : recv_waits(timeval(ms))]] : n \in 0..MaxArrivals }

\* the environment events of one run: the setup call that fails (if any), the ticks
\* the lookup and the send take, the value sendto() returns, the ticks by which a
\* timed-out receive wakes up late, and the datagrams that arrive
Scripts(p, ms) ==
    { [fail |-> f, dns_d |-> d, send_r |-> sizeof_ping_pkt, send_d |-> 0,
       sched |-> 1, arrivals |-> <<>>] :
          f \in {"dns", "socket", "ttl", "rcvtimeo"}, d \in 0..MaxDelay }
    \cup
    { [fail |-> "none", dns_d |-> d, send_r |-> r, send_d |-> e,
       sched |-> s, arrivals |-> a] :
          d \in 0..MaxDelay, r \in SendResults, e \in 0..MaxDelay,
          s \in 1..MaxSched, a \in Arrivals(p, ms) }

InitPair ==
    /\ InitCommon
    /\ impl = "c"
    /\ pc = "c_dns"
    /\ timeout_ms \in Timeouts
    /\ last = no_data
    /\ packet = zero_pkt
    /\ my_icmp_id = 0
    /\ main_pc = "none"
    /\ attempt = 0
    /\ status_code = 0
    /\ lines = 0
    /\ timed_out = FALSE
    /\ exit_status = -1
    /\ requests = {}
    /\ phase = 1
    /\ script \in Scripts(pid, timeout_ms)
    /\ outcome_c = no_outcome

\* the step the probe takes is the one the script gives it: the same results of
\* gethostbyname, socket, setsockopt and sendto, the same clock readings, the same
\* datagrams; once the datagrams of the script have arrived none arrives any more
follows_script ==
    CASE pc \in {"c_dns", "x_dns"} ->
             /\ now' - now = script.dns_d
             /\ (failed' = "dns") <=> (script.fail = "dns")
      [] pc \in {"c_socket", "x_socket"} -> (failed' = "socket") <=> (script.fail = "socket")
      [] pc \in {"c_ttl", "x_ttl"} -> (failed' = "ttl") <=> (script.fail = "ttl")
      [] pc \in {"c_rcvtimeo", "x_rcvtimeo"} ->
             (failed' = "rcvtimeo") <=> (script.fail = "rcvtimeo")
      [] pc \in {"c_send", "x_send"} ->
             /\ send_result' = script.send_r
             /\ now' - now = script.send_d
      [] pc \in {"c_loop", "x_loop"} /\ recvs' > recvs ->
             IF recvs < Len(script.arrivals)
             THEN /\ delivered' > delivered
                  /\ last' = recvfrom(script.arrivals[recvs + 1].dg, raw_icmp_response_length)
                  /\ now' - now = script.arrivals[recvs + 1].w
             ELSE /\ delivered' = delivered
                  /\ now' - now = timer(rcvtimeo) + script.sched
      [] OTHER -> TRUE

\* the probe sits in recvfrom() for good: the socket has no timer and no datagram comes
blocked ==
    /\ pc \in {"c_loop", "x_loop"}
    /\ IF impl = "c" THEN ~done ELSE now < deadline
    /\ timer(rcvtimeo) = 0
    /\ recvs >= Len(script.arrivals)

\* the probe has gone as far as it ever gets
probe_over == Returned \/ blocked

\* what the caller and the network see of a probe that is over
outcome ==
    [class |-> IF Returned THEN result ELSE "Blocked",
     sent |-> sent, recvs |-> recvs, closes |-> closes]

\* one step of icmp_ping under the script
pair_c ==
    /\ phase = 1
    /\ c_Next
    /\ follows_script

\* icmp_ping is over: icmp_ns::ping is started on the same timeout and the same script
pair_switch ==
    /\ phase = 1 /\ probe_over
    /\ outcome_c' = outcome
    /\ phase' = 2
    /\ impl' = "cpp"
    /\ pc' = "x_begin"
    /\ probe_locals_gone
    /\ UNCHANGED <<pid, timeout_ms, main_pc, attempt, status_code, lines, timed_out,
                   exit_status, requests, script>>

\* one step of icmp_ns::ping under the script
pair_x ==
    /\ phase = 2
    /\ x_Next
    /\ follows_script

PairNext ==
    \/ pair_c
    \/ pair_switch
    \/ pair_x

SpecPair == InitPair /\ [][PairNext]_vars

(* ---- verify_reply on its own -------------------------------------------- *)
\* candidates handed to verify_reply: every field of the genuine reply r varied,
\* the payload in each single byte
VerifyCandidates(r) ==
    { [r EXCEPT !.type = t, !.code = c, !.id = i, !.payload = pl] :
        t \in {ICMP_ECHOREPLY, ICMP_ECHO, 3},
        c \in {0, 1},
        i \in {r.id, U16(r.id + 1), U16(r.id + 256)},
        pl \in {r.payload} \cup
               { [r.payload EXCEPT ![k] = (@ + 1) % 256] :
                     k \in 0..(ICMP_PAYLOAD_LENGTH - 1) } }

InitVerify ==
    /\ InitCommon
    /\ InitAlone
    /\ impl \in {"c", "cpp"}
    /\ pc = "verify"
    /\ timeout_ms = 0
    /\ my_icmp_id = U16(pid)
    /\ packet = initialize_icmp_packet(pid)
    /\ \E cand \in VerifyCandidates(echo_reply(initialize_icmp_packet(pid))) :
         last = [wirelen |-> raw_icmp_response_length,
                 len |-> raw_icmp_response_length, pkt |-> cand]

\* verify_reply(&packet, data, my_icmp_id)
verify_call ==
    /\ pc = "verify"
    /\ verified' = verify_reply(packet, last.pkt, my_icmp_id)
    /\ pc' = "verified"
    /\ UNCHANGED <<outer, impl, pid, timeout_ms, now, deadline, start_timestamp, rcvtimeo,
                   socket_fd, constructed, closes, sent, send_result, recvs, delivered,
                   last, packet, my_icmp_id, done, duration, reports, result, failed>>

SpecVerify == InitVerify /\ [][verify_call]_vars

(* ---- the claims ---------------------------------------------------------- *)

\* C1: verify_reply returns true exactly when the candidate has type Echo Reply (0),
\* code 0, the expected identifier and all 56 payload bytes equal to those sent; a
\* difference in any one of them, a single payload byte included, makes it false.
C1_VerifyReplyIff ==
    pc = "verified" =>
        (verified <=>
            /\ last.pkt.type = 0
            /\ last.pkt.code = 0
            /\ last.pkt.id = my_icmp_id
            /\ \A i \in 0..55 : last.pkt.payload[i] = packet.payload[i])

\* C1, its case: a candidate that differs from the reply only in the last payload byte
\* was rejected
C1_Witness ==
    /\ pc = "verified" /\ ~verified
    /\ last.pkt.type = 0 /\ last.pkt.code = 0 /\ last.pkt.id = my_icmp_id
    /\ \A i \in 0..54 : last.pkt.payload[i] = packet.payload[i]
    /\ last.pkt.payload[55] # packet.payload[55]

\* C2: an unrelated datagram received before the deadline (start timestamp + timeout)
\* never ends the probe: a probe whose last receive returned a datagram has ended in
\* Timeout only when the deadline had passed.
C2_UnrelatedNeverEnds ==
    (result = "Timeout" /\ last.len > 0) => now >= start_timestamp + timeout_ms

\* the scheduling overhead granted to a probe: one send and one late wake-up
Overhead == MaxDelay + MaxSched

\* C3: for every timeout >= 0, a probe to which no datagram is delivered never blocks
\* for good (as long as it has not returned it has a step of its own to take) and
\* returns Timeout no later than timeout + overhead after the start timestamp.
C3_AlwaysTimesOut ==
    delivered = 0 =>
        /\ Returned \/ ENABLED ProgramNext
        /\ result = "Timeout" => now <= start_timestamp + timeout_ms + Overhead

\* C4: unrelated datagrams do not extend the wait: whenever the probe has returned
\* Success or Timeout, no more than timeout + overhead has passed since the start
\* (stated for the timeouts > 0, with which the timer of the socket is armed).
C4_WaitBounded ==
    (timeout_ms > 0 /\ result \in {"Success", "Timeout"}) =>
        now <= start_timestamp + timeout_ms + Overhead

\* C5: Success(elapsed) is returned only for a reply received before the deadline, so
\* elapsed is never negative and never beyond the timeout; a reply received after the
\* deadline has passed yields Timeout, not Success.
C5_SuccessBeforeDeadline ==
    result = "Success" => (0 <= duration /\ duration <= timeout_ms)

\* C6: on every exit path a socket that was opened is closed exactly once before the
\* probe returns, and a socket that was never opened is never closed.
C6_ClosedExactlyOnce ==
    /\ closes <= 1
    /\ socket_fd = "none" => closes = 0
    /\ failed \in {"dns", "socket"} => (socket_fd = "none" /\ closes = 0)
    /\ pc = "done" =>
           IF failed \in {"dns", "socket"}
           THEN socket_fd = "none" /\ closes = 0
           ELSE socket_fd = "closed" /\ closes = 1

\* C6, its case: the probe returned because setting the TTL failed, and the socket it
\* had opened is closed once
C6_Witness ==
    pc = "done" /\ failed = "ttl" /\ socket_fd = "closed" /\ closes = 1

\* C7: a failed send (an error, or fewer bytes than the packet) ends the probe at once
\* with a failure: no receive follows and the outcome is not Timeout.
C7_SendFailureSurfaced ==
    (sent > 0 /\ send_result # sizeof_ping_pkt) =>
        (Returned /\ result = "Failure" /\ recvs = 0)

\* C8: when name resolution, socket creation, or setting the TTL or the receive
\* timeout fails, the probe ends with a failure that is neither Success nor Timeout,
\* and no packet was sent and no receive performed.
C8_SetupFailure ==
    failed \in {"dns", "socket", "ttl", "rcvtimeo"} =>
        (Returned /\ result = "Failure" /\ sent = 0 /\ recvs = 0)

\* C8, its case: setting the receive timeout failed and the probe returned a failure
\* without having sent
C8_Witness ==
    failed = "rcvtimeo" /\ pc = "done" /\ result = "Failure" /\ sent = 0

\* C9 as claimed: a datagram is accepted as the reply only if its length on the wire
\* is exactly the expected reply size of 84 bytes.
C9_ExactWireLength ==
    result = "Success" => last.wirelen = 84

\* C9 as amended: a datagram is accepted only if the receive call returned exactly 84
\* bytes and verify_reply passed; a datagram shorter than 84 bytes on the wire is never
\* accepted (one longer than 84 bytes is cut to 84 by the receive call and can be).
C9_ExactReceivedLength ==
    result = "Success" =>
        /\ last.len = 84
        /\ last.wirelen >= 84
        /\ verified
        /\ verify_reply(packet, last.pkt, my_icmp_id)

\* C9, its case: a datagram longer than 84 bytes was accepted as the reply
C9_Witness ==
    result = "Success" /\ last.wirelen > 84 /\ last.len = 84

\* C10: the deadline that governs the wait loop equals the start timestamp, taken
\* right before the send, plus the timeout.
C10_DeadlineFromStart ==
    (impl = "cpp" /\ pc = "x_loop") => deadline = start_timestamp + timeout_ms

(* ---- calculate_checksum on its own --------------------------------------- *)
\* payloads handed to calculate_checksum: the pattern, all zero, all ones, and the
\* pattern with one byte at either end set to 255
ChecksumPayloads ==
    { payload_pattern,
      [i \in 0..(ICMP_PAYLOAD_LENGTH - 1) |-> 0],
      [i \in 0..(ICMP_PAYLOAD_LENGTH - 1) |-> 255],
      [payload_pattern EXCEPT ![0] = 255],
      [payload_pattern EXCEPT ![ICMP_PAYLOAD_LENGTH - 1] = 255] }

\* packets handed to calculate_checksum, the checksum field still zero
ChecksumInputs ==
    { [zero_pkt EXCEPT !.type = t, !.code = c, !.id = i, !.sequence = q, !.payload = pl] :
        t \in {ICMP_ECHOREPLY, ICMP_ECHO, 255},
        c \in {0, 255},
        i \in {0, 1, 27} \cup {U16(q) : q \in Pids} \cup {65535},
        q \in {0, 1, 65535},
        pl \in ChecksumPayloads }

InitChecksum ==
    /\ InitCommon
    /\ InitAlone
    /\ impl \in {"c", "cpp"}
    /\ pc = "checksum"
    /\ timeout_ms = 0
    /\ my_icmp_id = 0
    /\ last = no_data
    /\ packet \in ChecksumInputs

\* icmp_packet->hdr.checksum = calculate_checksum(icmp_packet);
checksum_call ==
    /\ pc = "checksum"
    /\ packet' = [packet EXCEPT !.checksum = calculate_checksum(packet)]
    /\ pc' = "checksummed"
    /\ UNCHANGED <<outer, impl, pid, timeout_ms, now, deadline, start_timestamp, rcvtimeo,
                   socket_fd, constructed, closes, sent, send_result, recvs, delivered,
                   last, verified, my_icmp_id, done, duration, reports, result, failed>>

SpecChecksum == InitChecksum /\ [][checksum_call]_vars

\* the sum of the 32 sixteen-bit words of a 64-byte buffer
WordTotal(b) ==
    LET f[k \in 0..32] == IF k = 0 THEN 0 ELSE f[k - 1] + b[2 * k - 2] + 256 * b[2 * k - 1]
    IN  f[32]

\* carries folded back until none is left
RECURSIVE FoldAll(_)
FoldAll(s) == IF s < 65536 THEN s ELSE FoldAll((s \div 65536) + (s % 65536))

\* C11: with the value of calculate_checksum stored in the checksum field, the sum of
\* all 16-bit words of the packet, carries folded back, is 0xFFFF: the two folds of
\* calculate_checksum propagate every carry of the 64-byte packet.
C11_ChecksumSelfCheck ==
    pc = "checksummed" => FoldAll(WordTotal(pkt_bytes(packet))) = 65535

\* C11, its case: a packet whose first fold leaves a carry got its checksum
C11_Witness ==
    /\ pc = "checksummed"
    /\ LET s0 == WordTotal(pkt_bytes([packet EXCEPT !.checksum = 0]))
       IN  (s0 \div 65536) + (s0 % 65536) >= 65536

\* C12: the packet handed to send has type Echo Request (8), code 0, sequence 0, the
\* identifier of the run (the pid cut to 16 bits) and payload byte i = ('0' + i) mod 256;
\* its checksum is the one of the filled packet with a zero checksum field; and every
\* packet built by an earlier probe call of the same process is byte for byte the same.
C12_PacketBuilt ==
    sent > 0 =>
        /\ packet.type = 8 /\ packet.code = 0 /\ packet.sequence = 0
        /\ packet.id = pid % 65536
        /\ \A k \in 0..55 : packet.payload[k] = (48 + k) % 256
        /\ packet.checksum =
               65535 - FoldAll(WordTotal(pkt_bytes([packet EXCEPT !.checksum = 0])))
        /\ \A r \in requests : pkt_bytes(r) = pkt_bytes(packet)

\* C12, its case: a later probe call of a process with a pid above 65535 has built and
\* sent its packet after an earlier call had sent one
C12_Witness ==
    main_pc = "m_call" /\ attempt >= 2 /\ sent > 0 /\ requests # {} /\ pid > 65535

\* the run of main is over: it returned, or the process was ended
MainEnded == main_pc \in {"m_exit", "m_abort"}

\* C13: when main returns after at least one probe call timed out, the exit status is
\* not 0.
C13_NonZeroAfterTimeout ==
    (main_pc = "m_exit" /\ timed_out) => exit_status # 0

\* C14: whatever the outcomes of the probe calls, a run of main that is over has made
\* exactly 4 probe calls and printed exactly 4 result lines: no outcome of a call
\* ends the run early or leaves its line out.
C14_FourAttemptsFourLines ==
    MainEnded => (attempt = 4 /\ lines = 4)

\* the Internet checksum of a 64-byte buffer read as 32 big-endian words
NetworkChecksum(b) ==
    LET f[k \in 0..32] == IF k = 0 THEN 0 ELSE f[k - 1] + 256 * b[2 * k - 2] + b[2 * k - 1]
    IN  65535 - FoldAll(f[32])

\* C15: in the bytes of the Echo Request handed to send, the checksum, the identifier
\* and the sequence number each lie high-order byte first (network byte order): bytes
\* 2..3 are the checksum of the packet read as big-endian words, bytes 4..5 the
\* identifier (the pid modulo 2^16), bytes 6..7 the sequence number 0.
C15_NetworkByteOrder ==
    sent > 0 =>
        LET b == pkt_bytes(packet)
            sum == NetworkChecksum(pkt_bytes([packet EXCEPT !.checksum = 0]))
        IN  /\ b[2] = sum \div 256 /\ b[3] = sum % 256
            /\ b[4] = (pid % 65536) \div 256 /\ b[5] = (pid % 65536) % 256
            /\ b[6] = 0 /\ b[7] = 0

\* C16: a datagram accepted as the reply of probe call k is not the Echo Reply to the
\* request an earlier probe call of the same run had sent.
C16_NoLateReplyAccepted ==
    (main_pc = "m_call" /\ result = "Success") =>
        \A r \in requests : last.pkt # echo_reply(r)

\* C17: an unrelated-message report is printed once for each received datagram that
\* was not accepted, and never for a receive call that returned no data.
C17_OneReportPerDatagram ==
    reports = delivered - (IF result = "Success" THEN 1 ELSE 0)

\* C18: run on the same timeout and the same environment events, icmp_ping and
\* icmp_ns::ping end in the same outcome class and have made the same send, receive
\* and close calls (each probe sends, then receives, then closes, so the numbers of
\* the calls give their sequence).
C18_ProbesEquivalent ==
    (phase = 2 /\ probe_over) => outcome = outcome_c

\* C19: for every process id the identifier in the sent packet and the expected
\* identifier are the same 16-bit value, the pid modulo 2^16, so a reply that echoes
\* the identifier (and the payload) is accepted.
C19_IdentifierTruncated ==
    sent > 0 =>
        /\ my_icmp_id = pid % 65536
        /\ packet.id = my_icmp_id
        /\ (/\ last.len = 84
            /\ last.pkt.id = packet.id
            /\ last.pkt.type = 0 /\ last.pkt.code = 0
            /\ last.pkt.payload = packet.payload) => (verified /\ result = "Success")

\* C19, its case: a process id above 65535 and its echoed reply accepted
C19_Witness ==
    pid > 65535 /\ result = "Success" /\ last.pkt.id = pid % 65536

====
